---------------------------- MODULE Spec2Model ----------------------------
(***************************************************************************)
(* Proof gathering in crates/engine/tree/src/tree/proofs.rs: the two       *)
(* sequential gatherers (gather_proofs, gather_proofs_parallel) and the    *)
(* poll-based fan-out engine (GatherProofsParallel), driven by a producer  *)
(* that sends StateAccess events on an unbounded mpsc channel and then     *)
(* drops its sender.                                                       *)
(***************************************************************************)
EXTENDS Integers, Sequences, FiniteSets, TLC

\* ---------------------------------------------------------------- bounds
\* The number of events the producer sends before it closes the stream
MaxEvents == 2

\* ------------------------------------------------------------ data model
\* Raw account addresses and storage slots named by the events
Addresses == {1, 2}
Slots == {1, 2}

Strategies == {"direct", "offloaded", "parallel"}
SeqStrategies == {"direct", "offloaded"}

\* enum StateAccess { Account(address), StorageSlot(address, slot) }
StateAccess ==
    [type : {"Account"}, address : Addresses, slot : {0}]
        \cup [type : {"StorageSlot"}, address : Addresses, slot : Slots]

\* keccak256: an opaque deterministic, collision-free map from a raw key to
\* its hash; the hash of x is never x itself.
keccak256(x) == <<"keccak256", x>>

\* TrieInput / TrieInputSorted values: the default (empty) overlay and a
\* non-empty overlay of pending mutations.
DefaultOverlay == "default"
Overlays == {DefaultOverlay, "pending"}

\* HashMap::<B256, HashSet<B256>>::default()
EmptyTargets == [k \in {} |-> {}]

\* targets.entry(k).or_default(): the slot set of k, created empty if absent
EntryOrDefault(targets, k) == IF k \in DOMAIN targets THEN targets[k] ELSE {}

\* The fold with Account inserting a fresh empty slot set over the entry
InsertTarget_AccountResets(targets, ev) ==
    LET k == keccak256(ev.address)
        new == IF ev.type = "Account" THEN {}
               ELSE EntryOrDefault(targets, k) \cup {keccak256(ev.slot)}
    IN  [x \in DOMAIN targets \cup {k} |-> IF x = k THEN new ELSE targets[x]]

\* One iteration of the inner drain loops: the match on StateAccess that
\* folds one event into the batch.
InsertTarget(targets, ev) ==
    LET k == keccak256(ev.address)
        cur == EntryOrDefault(targets, k)
        new == IF ev.type = "Account" THEN cur ELSE cur \cup {keccak256(ev.slot)}
    IN  [x \in DOMAIN targets \cup {k} |-> IF x = k THEN new ELSE targets[x]]

\* HashMap::from([match next { ... }]): the batch built from the event whose
\* receipt started it (sequential gatherers only).
FirstTargets(ev) ==
    LET k == keccak256(ev.address)
    IN  [x \in {k} |-> IF ev.type = "Account" THEN {} ELSE {keccak256(ev.slot)}]

\* MultiProof::default()
DefaultMultiProof == {}

\* The Proof Backend, a deterministic function of its inputs: one proof
\* fragment per target account and per target slot, computed against the
\* given overlay.
ComputeMultiproof(overlay, targets) ==
    {<<overlay, k>> : k \in DOMAIN targets}
        \cup UNION {{<<overlay, k, s>> : s \in targets[k]} : k \in DOMAIN targets}

\* MultiProof::extend: commutative, associative, idempotent merge
Extend(multiproof, other) == multiproof \cup other

\* The StateProviderBox handed to a sequential gatherer
Provider == "provider"

VARIABLES
    active,     \* the strategies running in this session
    input,      \* the session's Arc<TrieInputSorted>
    chan,       \* per strategy: the mpsc channel (queue, closed)
    sent,       \* every event the producer has sent, in order
    seq,        \* per sequential strategy: the gatherer's state
    par,        \* GatherProofsParallel's fields and poll position
    units       \* the units of work spawned by GatherProofsParallel

vars == <<active, input, chan, sent, seq, par, units>>

\* ------------------------------------------------------- initial states
\* rx is the caller's end of the oneshot result channel; pool is the
\* BlockingTaskPool of gather_proofs_parallel (gather_proofs has none).
SeqInit ==
    [pc |-> "recv", targets |-> EmptyTargets, batch |-> <<>>,
     multiproof |-> DefaultMultiProof, calls |-> <<>>, merged |-> 0,
     tx |-> "held", result |-> <<>>, rx |-> "open", pool |-> "built"]

ParInit ==
    [pc |-> "suspended", woken |-> TRUE, closed |-> FALSE, pending |-> {},
     multiproof |-> DefaultMultiProof, targets |-> EmptyTargets,
     batch |-> <<>>, rxWaker |-> FALSE, futWakers |-> {},
     yielded |-> <<>>, harvested |-> <<>>, pool |-> "built"]

InitCommon ==
    /\ input \in Overlays
    /\ chan = [s \in Strategies |-> [queue |-> <<>>, closed |-> FALSE]]
    /\ sent = <<>>
    /\ seq = [s \in SeqStrategies |->
                 [SeqInit EXCEPT !.pool = IF s = "direct" THEN "none" ELSE "built"]]
    /\ par = ParInit
    /\ units = <<>>

Init ==
    /\ active \in {{s} : s \in Strategies}
    /\ InitCommon

\* ---------------------------------------------------------- the producer
\* A registered receiver waker is taken and fired by a send or by the drop
\* of the last sender.
WakeRx(p) == IF p.rxWaker THEN [p EXCEPT !.woken = TRUE, !.rxWaker = FALSE] ELSE p

ProducerOpen == \A s \in active : ~chan[s].closed

Send(ev) ==
    /\ ProducerOpen
    /\ Len(sent) < MaxEvents
    /\ sent' = Append(sent, ev)
    /\ chan' = [s \in Strategies |->
                  IF s \in active
                  THEN [chan[s] EXCEPT !.queue = Append(@, ev)]
                  ELSE chan[s]]
    /\ par' = IF "parallel" \in active THEN WakeRx(par) ELSE par
    /\ UNCHANGED <<active, input, seq, units>>

Close ==
    /\ ProducerOpen
    /\ chan' = [s \in Strategies |->
                  IF s \in active THEN [chan[s] EXCEPT !.closed = TRUE] ELSE chan[s]]
    /\ par' = IF "parallel" \in active THEN WakeRx(par) ELSE par
    /\ UNCHANGED <<active, input, sent, seq, units>>


\* ------------------------------------------------- sequential gatherers
\* Both gatherers computing against the default overlay
SeqOverlay_AlwaysDefault(st) == DefaultOverlay

\* The overlay a sequential gatherer hands to the backend: gather_proofs
\* passes Default::default(), gather_proofs_parallel binds AsyncProof to the
\* session's input.
SeqOverlay(st) == IF st = "direct" THEN DefaultOverlay ELSE input

\* The gatherer going back to recv without waiting for the batch's result
AfterDispatch_NoWait == "recv"

\* The position a gatherer moves to once it has handed a batch to the
\* backend: it waits for that batch's result (a blocking call in
\* gather_proofs, an await in gather_proofs_parallel).
AfterDispatch == "compute"

\* state_rx.recv().await yields Some(next): the batch is started from it
SeqStartBatch(r, ev) ==
    [r EXCEPT !.pc = "drain", !.targets = FirstTargets(ev), !.batch = <<ev>>]

\* state_rx.try_recv() yields Ok(next)
SeqFoldEvent(r, ev) ==
    [r EXCEPT !.targets = InsertTarget(@, ev), !.batch = Append(@, ev)]

\* state_rx.try_recv() yields Err: the drained batch goes to the backend
SeqCallBackend(r, overlay) ==
    [r EXCEPT !.pc = AfterDispatch,
              !.calls = Append(@, [targets |-> r.targets, overlay |-> overlay,
                                   batch |-> r.batch]),
              !.targets = EmptyTargets, !.batch = <<>>]

\* The result of a batch assigned to multiproof instead of merged into it
SeqBackendReturns_Overwrite(r, ok) ==
    LET call == r.calls[Len(r.calls)]
    IN  IF ok
        THEN [r EXCEPT !.pc = "recv", !.merged = @ + 1,
                       !.multiproof = ComputeMultiproof(call.overlay, call.targets)]
        ELSE [r EXCEPT !.pc = "panicked", !.tx = "dropped"]

\* The backend returns: Ok is merged by multiproof.extend, Err makes unwrap
\* panic, which unwinds the gatherer and drops tx unsent.
SeqBackendReturns(r, ok) ==
    LET call == r.calls[Len(r.calls)]
    IN  IF ok
        THEN [r EXCEPT !.pc = "recv", !.merged = @ + 1,
                       !.multiproof =
                           Extend(@, ComputeMultiproof(call.overlay, call.targets))]
        ELSE [r EXCEPT !.pc = "panicked", !.tx = "dropped"]

\* state_rx.recv().await yields None: tx.send((provider, multiproof, elapsed));
\* with the receiver dropped send returns Err, which `let _ =` discards.
SeqSendResult(r) ==
    IF r.rx = "open"
    THEN [r EXCEPT !.pc = "done", !.tx = "sent",
                   !.result = Append(@, [provider |-> Provider,
                                         multiproof |-> r.multiproof])]
    ELSE [r EXCEPT !.pc = "done", !.tx = "refused"]

\* The gatherers in S take the same step together (S is a single strategy
\* when one gatherer runs alone): newChan and newSeq give, for each, its
\* channel and its state after the step.
SeqStep(S, newChan, newSeq) ==
    /\ chan' = [s \in Strategies |-> IF s \in S THEN newChan[s] ELSE chan[s]]
    /\ seq' = [s \in SeqStrategies |-> IF s \in S THEN newSeq[s] ELSE seq[s]]
    /\ UNCHANGED <<active, input, sent, par, units>>

\* The channels of S after one event was taken off each
PopQueue(S) == [s \in S |-> [chan[s] EXCEPT !.queue = Tail(@)]]

\* The channels of S left as they are
SameChan(S) == [s \in S |-> chan[s]]

\* The drain stopping whether or not events are still available
NothingAvailable_Anytime(c) == TRUE

\* The non-blocking receive finds no event: try_recv() yields Err, poll_recv
\* yields Pending or Ready(None)
NothingAvailable(c) == c.queue = <<>>

SeqRecv(S) ==
    /\ \A s \in S : seq[s].pc = "recv" /\ chan[s].queue # <<>>
    /\ SeqStep(S, PopQueue(S),
               [s \in S |-> SeqStartBatch(seq[s], Head(chan[s].queue))])

SeqTryRecv(S) ==
    /\ \A s \in S : seq[s].pc = "drain" /\ chan[s].queue # <<>>
    /\ SeqStep(S, PopQueue(S),
               [s \in S |-> SeqFoldEvent(seq[s], Head(chan[s].queue))])

SeqDispatch(S) ==
    /\ \A s \in S : seq[s].pc = "drain" /\ NothingAvailable(chan[s])
    /\ SeqStep(S, SameChan(S),
               [s \in S |-> SeqCallBackend(seq[s], SeqOverlay(s))])

SeqComplete(S, ok) ==
    /\ \A s \in S : seq[s].pc = "compute"
    /\ SeqStep(S, SameChan(S), [s \in S |-> SeqBackendReturns(seq[s], ok)])

SeqFinish(S) ==
    /\ \A s \in S : seq[s].pc = "recv" /\ chan[s].queue = <<>> /\ chan[s].closed
    /\ SeqStep(S, SameChan(S), [s \in S |-> SeqSendResult(seq[s])])

\* ------------------------------------------- GatherProofsParallel::poll
\* The terminal check without the test of pending
IsTerminal_ClosedOnly(p) == p.closed

\* if this.closed && this.pending.is_empty()
IsTerminal(p) == p.closed /\ p.pending = {}

\* A unit of work spawned for an empty batch too
ShouldDispatch_Always(targets) == TRUE

\* if !targets.is_empty()
ShouldDispatch(targets) == DOMAIN targets # {}

\* Top of the loop: return Ready(mem::take(multiproof)), or start a drain
\* with a fresh targets map.
LoopTop(p) ==
    IF IsTerminal(p)
    THEN [p EXCEPT !.pc = "done", !.yielded = <<p.multiproof>>,
                   !.multiproof = DefaultMultiProof]
    ELSE [p EXCEPT !.pc = "drain", !.targets = EmptyTargets, !.batch = <<>>]

\* The pending futures whose oneshot has resolved: with the unit's result,
\* or with RecvError because the unit panicked and dropped its sender.
Resolved(p) == {u \in p.pending : units[u].status # "running"}

\* The harvested future left in pending
HarvestResult_KeepsPending(p, u) ==
    IF units[u].status = "sent"
    THEN LoopTop([p EXCEPT !.futWakers = @ \ {u},
                           !.harvested = Append(@, u),
                           !.multiproof =
                               Extend(@, ComputeMultiproof(units[u].overlay,
                                                           units[u].targets))])
    ELSE [p EXCEPT !.pc = "panicked", !.futWakers = @ \ {u}]

\* The harvested result assigned to multiproof instead of merged into it
HarvestResult_Overwrite(p, u) ==
    IF units[u].status = "sent"
    THEN LoopTop([p EXCEPT !.pending = @ \ {u},
                           !.futWakers = @ \ {u},
                           !.harvested = Append(@, u),
                           !.multiproof = ComputeMultiproof(units[u].overlay,
                                                            units[u].targets)])
    ELSE [p EXCEPT !.pc = "panicked", !.pending = @ \ {u}, !.futWakers = @ \ {u}]

\* this.multiproof.extend(result.expect("no error")) for the resolved future
\* u, then continue
HarvestResult(p, u) ==
    IF units[u].status = "sent"
    THEN LoopTop([p EXCEPT !.pending = @ \ {u},
                           !.futWakers = @ \ {u},
                           !.harvested = Append(@, u),
                           !.multiproof =
                               Extend(@, ComputeMultiproof(units[u].overlay,
                                                           units[u].targets))])
    ELSE [p EXCEPT !.pc = "panicked", !.pending = @ \ {u}, !.futWakers = @ \ {u}]

\* The unit of work given the default overlay instead of the session's input
NewUnit_DefaultOverlay(p) ==
    [targets |-> p.targets, overlay |-> DefaultOverlay, batch |-> p.batch,
     status |-> "running"]

\* The unit of work spawned for a drained batch
NewUnit(p) ==
    [targets |-> p.targets, overlay |-> input, batch |-> p.batch,
     status |-> "running"]

\* A drained batch held back while an earlier unit of work is pending
DispatchBatch_WaitsForPending(p) ==
    IF ShouldDispatch(p.targets) /\ p.pending = {}
    THEN /\ units' = Append(units, NewUnit(p))
         /\ par' = [p EXCEPT !.pc = "harvest", !.pending = @ \cup {Len(units) + 1},
                             !.targets = EmptyTargets, !.batch = <<>>]
    ELSE /\ par' = [p EXCEPT !.pc = "harvest"]
         /\ UNCHANGED units

\* The batch drained in the pass that observes closure thrown away instead
\* of dispatched
DispatchBatch_DropsClosingBatch(p) ==
    IF ShouldDispatch(p.targets) /\ ~p.closed
    THEN /\ units' = Append(units, NewUnit(p))
         /\ par' = [p EXCEPT !.pc = "harvest", !.pending = @ \cup {Len(units) + 1},
                             !.targets = EmptyTargets, !.batch = <<>>]
    ELSE /\ par' = [p EXCEPT !.pc = "harvest", !.targets = EmptyTargets,
                             !.batch = <<>>]
         /\ UNCHANGED units

\* After the drain: spawn a unit of work for a non-empty batch and push its
\* receiver onto pending; then go on to the harvest.
DispatchBatch(p) ==
    IF ShouldDispatch(p.targets)
    THEN /\ units' = Append(units, NewUnit(p))
         /\ par' = [p EXCEPT !.pc = "harvest", !.pending = @ \cup {Len(units) + 1},
                             !.targets = EmptyTargets, !.batch = <<>>]
    ELSE /\ par' = [p EXCEPT !.pc = "harvest"]
         /\ UNCHANGED units

\* The scheduler polls the future after a wake (the first poll included)
ParPoll ==
    /\ "parallel" \in active
    /\ par.pc = "suspended" /\ par.woken
    /\ par' = LoopTop([par EXCEPT !.woken = FALSE])
    /\ UNCHANGED <<active, input, chan, sent, seq, units>>

\* poll_recv yields Ready(Some(key))
ParRecvSome ==
    /\ par.pc = "drain"
    /\ chan["parallel"].queue # <<>>
    /\ LET ev == Head(chan["parallel"].queue)
       IN  par' = [par EXCEPT !.targets = InsertTarget(@, ev),
                              !.batch = Append(@, ev)]
    /\ chan' = [chan EXCEPT !["parallel"].queue = Tail(@)]
    /\ UNCHANGED <<active, input, sent, seq, units>>

\* poll_recv yields Ready(None): closed = true; break 'state; then dispatch
ParRecvNone ==
    /\ par.pc = "drain"
    /\ NothingAvailable(chan["parallel"]) /\ chan["parallel"].closed
    /\ DispatchBatch([par EXCEPT !.closed = TRUE])
    /\ UNCHANGED <<active, input, chan, sent, seq>>

\* poll_recv yields Pending and registers the task's waker with the
\* channel; then dispatch
ParRecvPending ==
    /\ par.pc = "drain"
    /\ NothingAvailable(chan["parallel"]) /\ ~chan["parallel"].closed
    /\ DispatchBatch([par EXCEPT !.rxWaker = TRUE])
    /\ UNCHANGED <<active, input, chan, sent, seq>>

\* pending.poll_next_unpin yields Ready(Some(result)): merge and continue
ParHarvest(u) ==
    /\ par.pc = "harvest"
    /\ u \in Resolved(par)
    /\ par' = HarvestResult(par, u)
    /\ UNCHANGED <<active, input, chan, sent, seq, units>>

\* pending.poll_next_unpin yields Pending (every pending future has been
\* polled and holds the task's waker) or Ready(None): return Poll::Pending
ParSuspend ==
    /\ par.pc = "harvest"
    /\ Resolved(par) = {}
    /\ par' = [par EXCEPT !.pc = "suspended", !.futWakers = par.pending]
    /\ UNCHANGED <<active, input, chan, sent, seq, units>>

\* The receiver of unit u's oneshot lives in pending: it is gone once the
\* engine has been dropped or has unwound from a panic.
ReceiverAlive(u) == u \in par.pending /\ par.pc \notin {"dropped", "panicked"}

\* How a unit of work ends: the backend returned Ok and tx.send delivered
\* the result ("sent") or found the receiver gone and the Err was discarded
\* by `let _ =` ("discarded"); or the backend returned Err and unwrap
\* panicked, dropping the sender ("dropped").
UnitOutcome(u, ok) ==
    IF ~ok THEN "dropped"
    ELSE IF ReceiverAlive(u) THEN "sent" ELSE "discarded"

\* A spawned unit of work ends; the receiver's registered waker fires.
UnitFinish(u, ok) ==
    /\ u \in 1..Len(units)
    /\ units[u].status = "running"
    /\ units' = [units EXCEPT ![u].status = UnitOutcome(u, ok)]
    /\ par' = IF u \in par.futWakers
              THEN [par EXCEPT !.woken = TRUE, !.futWakers = @ \ {u}]
              ELSE par
    /\ UNCHANGED <<active, input, chan, sent, seq>>

\* ------------------------------------------------------- specifications
SendEvent == \E ev \in StateAccess : Send(ev)
GatherRecv == \E st \in active \cap SeqStrategies : SeqRecv({st})
GatherTryRecv == \E st \in active \cap SeqStrategies : SeqTryRecv({st})
GatherDispatch == \E st \in active \cap SeqStrategies : SeqDispatch({st})
GatherComplete ==
    \E st \in active \cap SeqStrategies, ok \in BOOLEAN : SeqComplete({st}, ok)
GatherFinish == \E st \in active \cap SeqStrategies : SeqFinish({st})
ParHarvestAny == \E u \in par.pending : ParHarvest(u)
UnitFinishAny == \E u \in 1..Len(units), ok \in BOOLEAN : UnitFinish(u, ok)

Next ==
    \/ SendEvent
    \/ Close
    \/ GatherRecv
    \/ GatherTryRecv
    \/ GatherDispatch
    \/ GatherComplete
    \/ GatherFinish
    \/ ParPoll
    \/ ParRecvSome
    \/ ParRecvNone
    \/ ParRecvPending
    \/ ParHarvestAny
    \/ ParSuspend
    \/ UnitFinishAny

Spec == Init /\ [][Next]_vars

\* ------------------------------------ construction and abandonment
\* BlockingTaskPool::build().unwrap() at the start of gather_proofs_parallel:
\* Ok goes on to the receive loop, Err panics and drops tx unsent.
SeqBuildPool(r, ok) ==
    IF ok THEN [r EXCEPT !.pc = "recv", !.pool = "built"]
    ELSE [r EXCEPT !.pc = "panicked", !.pool = "failed", !.tx = "dropped"]

\* BlockingTaskPool::build().unwrap() in GatherProofsParallel::new: Ok
\* returns the engine, ready for its first poll, Err panics in new.
ParBuildPool(p, ok) ==
    IF ok THEN [p EXCEPT !.pc = "suspended", !.woken = TRUE, !.pool = "built"]
    ELSE [p EXCEPT !.pc = "panicked", !.pool = "failed"]

ConstructGatherer(ok) ==
    /\ "offloaded" \in active
    /\ seq["offloaded"].pc = "new"
    /\ seq' = [seq EXCEPT !["offloaded"] = SeqBuildPool(@, ok)]
    /\ UNCHANGED <<active, input, chan, sent, par, units>>

ConstructEngine(ok) ==
    /\ "parallel" \in active
    /\ par.pc = "new"
    /\ par' = ParBuildPool(par, ok)
    /\ UNCHANGED <<active, input, chan, sent, seq, units>>

\* The caller drops the receiving end of a gatherer's result channel
DropReceiver(st) ==
    /\ st \in active \cap SeqStrategies
    /\ seq[st].pc \notin {"done", "panicked"}
    /\ seq[st].rx = "open"
    /\ seq' = [seq EXCEPT ![st].rx = "dropped"]
    /\ UNCHANGED <<active, input, chan, sent, par, units>>

\* The units of work still running cancelled with the engine
UnitsAfterDrop_Cancels(us) ==
    [u \in DOMAIN us |->
        IF us[u].status = "running" THEN [us[u] EXCEPT !.status = "cancelled"]
        ELSE us[u]]

\* What dropping the engine does to its spawned units of work: nothing,
\* the tasks are detached
UnitsAfterDrop(us) == us

\* The owner drops the GatherProofsParallel future between two polls:
\* state_stream and the receivers in pending are dropped with it.
DropEngine ==
    /\ "parallel" \in active
    /\ par.pc = "suspended"
    /\ par' = [par EXCEPT !.pc = "dropped", !.woken = FALSE,
                          !.rxWaker = FALSE, !.futWakers = {}]
    /\ units' = UnitsAfterDrop(units)
    /\ UNCHANGED <<active, input, chan, sent, seq>>

\* A session from before its construction, with a caller that may abandon it
InitFull ==
    /\ active \in {{s} : s \in Strategies}
    /\ input \in Overlays
    /\ chan = [s \in Strategies |-> [queue |-> <<>>, closed |-> FALSE]]
    /\ sent = <<>>
    /\ seq = [s \in SeqStrategies |->
                 IF s = "direct" THEN [SeqInit EXCEPT !.pool = "none"]
                 ELSE [SeqInit EXCEPT !.pc = "new", !.pool = "unbuilt"]]
    /\ par = [ParInit EXCEPT !.pc = "new", !.woken = FALSE, !.pool = "unbuilt"]
    /\ units = <<>>

ConstructGathererAny == \E ok \in BOOLEAN : ConstructGatherer(ok)
ConstructEngineAny == \E ok \in BOOLEAN : ConstructEngine(ok)
DropReceiverAny == \E st \in SeqStrategies : DropReceiver(st)

NextFull ==
    \/ Next
    \/ ConstructGathererAny
    \/ ConstructEngineAny
    \/ DropReceiverAny
    \/ DropEngine

SpecFull == InitFull /\ [][NextFull]_vars

\* gather_proofs and gather_proofs_parallel side by side: fed the same
\* events, scheduled in lockstep, their backend calls ending alike.
InitPair ==
    /\ active = SeqStrategies
    /\ InitCommon

PairRecv == SeqRecv(SeqStrategies)
PairTryRecv == SeqTryRecv(SeqStrategies)
PairDispatch == SeqDispatch(SeqStrategies)
PairComplete == \E ok \in BOOLEAN : SeqComplete(SeqStrategies, ok)
PairFinish == SeqFinish(SeqStrategies)

NextPair ==
    \/ SendEvent
    \/ Close
    \/ PairRecv
    \/ PairTryRecv
    \/ PairDispatch
    \/ PairComplete
    \/ PairFinish

SpecPair == InitPair /\ [][NextPair]_vars

\* ----------------------------------------------------- derived notions
Range(s) == {s[i] : i \in DOMAIN s}

ActiveSeq == active \cap SeqStrategies

StorageSlotEv(a, sl) == [type |-> "StorageSlot", address |-> a, slot |-> sl]
AccountEv(a) == [type |-> "Account", address |-> a, slot |-> 0]

\* The TargetBatch a sequence of events stands for, stated on the set of
\* its events
ExpectedTargets(evs) ==
    [k \in {keccak256(e.address) : e \in Range(evs)} |->
        {keccak256(e.slot) :
            e \in {x \in Range(evs) :
                     x.type = "StorageSlot" /\ keccak256(x.address) = k}}]

\* The batch a strategy forms when it drains evs (non-empty) in one go
RECURSIVE FoldTargets(_, _)
FoldTargets(targets, evs) ==
    IF evs = <<>> THEN targets
    ELSE FoldTargets(InsertTarget(targets, Head(evs)), Tail(evs))

OneBatchTargets(st, evs) ==
    IF st \in SeqStrategies
    THEN FoldTargets(FirstTargets(Head(evs)), Tail(evs))
    ELSE FoldTargets(EmptyTargets, evs)

StrategyOverlay(st) == IF st \in SeqStrategies THEN SeqOverlay(st) ELSE input

\* The MultiProof of the session whose whole event sequence is one batch
OneBatchProof(st) ==
    IF sent = <<>> THEN DefaultMultiProof
    ELSE ComputeMultiproof(StrategyOverlay(st), OneBatchTargets(st, sent))

RECURSIVE MergeAll(_)
MergeAll(proofs) ==
    IF proofs = <<>> THEN DefaultMultiProof
    ELSE Extend(MergeAll(Tail(proofs)), Head(proofs))

UnitProof(u) == ComputeMultiproof(units[u].overlay, units[u].targets)

\* The engine can take a step of poll, or is due to be polled
ParCanStep ==
    \/ par.pc \in {"drain", "harvest"}
    \/ par.pc = "suspended" /\ par.woken

SeqEnded(st) == seq[st].pc \in {"done", "panicked"}

\* ------------------------------------------------------------- claims

\* C1: GatherProofsParallel, polled only when a waker it registered fires:
\* once the producer has closed the stream, every dispatched unit of work has
\* delivered its result and the engine has no step left to take and no wake
\* to come, the engine has returned Ready.
C1_EngineTerminates ==
    ( /\ "parallel" \in active
      /\ chan["parallel"].closed
      /\ \A u \in 1..Len(units) : units[u].status = "sent"
      /\ ~ParCanStep )
        => par.pc = "done"

\* C2: poll returns Ready only with closed set and pending empty: then the
\* stream really is closed and drained, every dispatched unit of work has
\* been harvested, and the value yielded is the accumulator, the merge of
\* every unit's result.
C2_ReadyOnlyWhenTerminal ==
    ("parallel" \in active /\ par.pc = "done") =>
        /\ par.closed /\ par.pending = {}
        /\ chan["parallel"].closed /\ chan["parallel"].queue = <<>>
        /\ Range(par.harvested) = 1..Len(units)
        /\ \A u \in 1..Len(units) : units[u].status = "sent"
        /\ par.yielded = <<MergeAll([u \in 1..Len(units) |-> UnitProof(u)])>>

\* C2 witness: Ready returned after units of work were dispatched and harvested
C2_Witness ==
    /\ "parallel" \in active /\ par.pc = "done"
    /\ Len(units) >= 2
    /\ par.yielded # <<DefaultMultiProof>>

\* C3: a Proof Backend failure never ends a session in a panic and never
\* leaves the result channel without a message.
C3_FailureIsAValue ==
    /\ \A st \in ActiveSeq : seq[st].pc # "panicked" /\ seq[st].tx # "dropped"
    /\ "parallel" \in active =>
          /\ par.pc # "panicked"
          /\ \A u \in 1..Len(units) : units[u].status # "dropped"

\* C4: batching invariance: whatever batches the drains formed, the
\* MultiProof of a session that ran to completion is the MultiProof of the
\* single batch holding every event sent.
C4_BatchingInvariance ==
    /\ \A st \in ActiveSeq :
          seq[st].pc = "done" =>
              seq[st].result = <<[provider |-> Provider,
                                  multiproof |-> OneBatchProof(st)]>>
    /\ ("parallel" \in active /\ par.pc = "done") =>
          par.yielded = <<OneBatchProof("parallel")>>

\* C4 witness: a gatherer has completed after two or more batches
C4_Witness ==
    \E st \in ActiveSeq :
        /\ seq[st].pc = "done"
        /\ Len(seq[st].calls) >= 2
        /\ Len(sent) = MaxEvents

\* C5: with two or more units of work dispatched, in whatever order they
\* complete and are harvested, the MultiProof yielded at Done is the merge of
\* every unit's result and equals the single-batch MultiProof.
C5_HarvestOrderIndependent ==
    ("parallel" \in active /\ par.pc = "done" /\ Len(units) >= 2) =>
        /\ Len(par.harvested) = Len(units)
        /\ \A u \in 1..Len(units) : UnitProof(u) \subseteq par.yielded[1]
        /\ par.yielded[1] = UNION {UnitProof(u) : u \in 1..Len(units)}
        /\ par.yielded[1] = OneBatchProof("parallel")

\* C5 witness: Done after the second unit was harvested before the first
C5_Witness ==
    /\ "parallel" \in active /\ par.pc = "done"
    /\ Len(units) = 2
    /\ par.harvested = <<2, 1>>
    /\ UnitProof(1) # UnitProof(2)

\* C6: a sequential gatherer delivers its SessionResult exactly once: not
\* before the stream is closed and drained and the last batch merged, not
\* twice, carrying the provider it was started with, and always once the
\* stream has closed and the gatherer has ended.
C6_ResultExactlyOnce ==
    \A st \in ActiveSeq :
        LET r == seq[st]
        IN  /\ Len(r.result) <= 1
            /\ Len(r.result) = 1 =>
                  /\ chan[st].closed /\ chan[st].queue = <<>>
                  /\ r.merged = Len(r.calls)
                  /\ r.result[1].provider = Provider
            /\ SeqEnded(st) => Len(r.result) = 1

\* C7: every batch, while it is drained and when it is dispatched, has
\* exactly the hashed addresses of its events as keys and, for each, exactly
\* the hashed slots of its StorageSlot events; the order and multiplicity of
\* the events do not matter.
C7_TargetAggregation ==
    /\ \A st \in ActiveSeq :
          /\ seq[st].pc = "drain" => seq[st].targets = ExpectedTargets(seq[st].batch)
          /\ \A i \in 1..Len(seq[st].calls) :
                seq[st].calls[i].targets = ExpectedTargets(seq[st].calls[i].batch)
    /\ "parallel" \in active =>
          /\ par.targets = ExpectedTargets(par.batch)
          /\ \A u \in 1..Len(units) :
                units[u].targets = ExpectedTargets(units[u].batch)

\* C7 witness: a gatherer dispatched the batch StorageSlot(1,1), Account(1)
\* with the single entry hash(1) -> {hash(1)}
C7_Witness ==
    \E st \in ActiveSeq : \E i \in 1..Len(seq[st].calls) :
        /\ seq[st].calls[i].batch = <<StorageSlotEv(1, 1), AccountEv(1)>>
        /\ DOMAIN seq[st].calls[i].targets = {keccak256(1)}
        /\ seq[st].calls[i].targets[keccak256(1)] = {keccak256(1)}

\* The events of the batches handed to the backend so far, in order
RECURSIVE CallEvents(_)
CallEvents(calls) ==
    IF calls = <<>> THEN <<>>
    ELSE CallEvents(SubSeq(calls, 1, Len(calls) - 1)) \o calls[Len(calls)].batch

\* C8: a sequential gatherer has at most one batch in flight; outside the
\* wait for a backend result every dispatched batch has been merged; and
\* during that wait every event sent since the drain is still in the stream.
C8_OneBatchInFlight ==
    \A st \in ActiveSeq :
        LET r == seq[st]
        IN  /\ Len(r.calls) - r.merged \in {0, 1}
            /\ r.pc \in {"recv", "drain", "done"} => r.merged = Len(r.calls)
            /\ r.pc = "compute" =>
                  /\ Len(r.calls) = r.merged + 1
                  /\ sent = CallEvents(r.calls) \o chan[st].queue

\* C8 witness: an event sent after the drain waits in the stream while the
\* batch is computed
C8_Witness ==
    \E st \in ActiveSeq :
        /\ seq[st].pc = "compute"
        /\ Len(seq[st].calls) = seq[st].merged + 1
        /\ chan[st].queue # <<>>

\* The proof fragments of a MultiProof recomputed against another overlay
WithOverlay(multiproof, overlay) ==
    {[f EXCEPT ![1] = overlay] : f \in multiproof}

C10_EmptyStream ==
    /\ \A st \in ActiveSeq :
          (sent = <<>> /\ chan[st].closed /\ seq[st].pc # "recv") =>
              /\ seq[st].result = <<[provider |-> Provider,
                                     multiproof |-> DefaultMultiProof]>>
              /\ seq[st].calls = <<>>
    /\ ("parallel" \in active /\ sent = <<>> /\ chan["parallel"].closed
            /\ ~ParCanStep) =>
          /\ par.pc = "done"
          /\ par.yielded = <<DefaultMultiProof>>
          /\ units = <<>>

\* The events of the batches handed to the backend so far, in order
\* (see CallEvents); for the engine, the events of its spawned units
RECURSIVE UnitEvents(_)
UnitEvents(us) ==
    IF us = <<>> THEN <<>>
    ELSE UnitEvents(SubSeq(us, 1, Len(us) - 1)) \o us[Len(us)].batch

\* C11: a constructed sequential gatherer whose result receiver was dropped
\* reaches no crash state, and when it has ended it has consumed the stream
\* to closure and merged every batch, its failed send ignored; a unit of
\* work that found its receiver gone has finished without a panic.
C11_SendFailureNonFatal ==
    /\ \A st \in ActiveSeq :
          (seq[st].rx = "dropped" /\ seq[st].pool # "failed") =>
              /\ seq[st].pc # "panicked"
              /\ seq[st].pc = "done" =>
                    /\ chan[st].closed /\ chan[st].queue = <<>>
                    /\ CallEvents(seq[st].calls) = sent
                    /\ seq[st].merged = Len(seq[st].calls)
                    /\ seq[st].multiproof = OneBatchProof(st)
                    /\ seq[st].tx = "refused" /\ seq[st].result = <<>>
    /\ \A u \in 1..Len(units) :
          (par.pc = "dropped" /\ u \in par.pending) => units[u].status # "dropped"

\* C12: when the blocking pool cannot be built, construction ends in an
\* explicit failure outcome, not a panic, with no event consumed and no
\* batch dispatched.
C12_ConstructionFailurePropagated ==
    /\ \A st \in ActiveSeq :
          seq[st].pool = "failed" =>
              /\ seq[st].pc = "failed"
              /\ seq[st].calls = <<>>
              /\ chan[st].queue = sent
    /\ ("parallel" \in active /\ par.pool = "failed") =>
          /\ par.pc = "failed"
          /\ units = <<>>
          /\ chan["parallel"].queue = sent

\* C13: whenever the engine is suspended (poll returned Pending and
\* nothing has woken it since), the stream has no event available, no
\* pending unit has a completed result waiting, and the terminal condition
\* does not hold: the stream is still open or a unit is outstanding.
C13_SuspendedOnlyWhenBlocked ==
    ("parallel" \in active /\ par.pc = "suspended" /\ ~par.woken) =>
        /\ chan["parallel"].queue = <<>>
        /\ Resolved(par) = {}
        /\ ~IsTerminal(par)
        /\ ~par.closed \/ par.pending # {}

\* The union of the targets of the dispatched batches bs
TargetsUnion(bs) ==
    [k \in UNION {DOMAIN bs[i].targets : i \in DOMAIN bs} |->
        UNION {bs[i].targets[k] : i \in {j \in DOMAIN bs : k \in DOMAIN bs[j].targets}}]

\* Every event sent so far is, in order and exactly once, in a dispatched
\* batch, in the batch being drained, or still in the channel.
EventsConserved ==
    /\ \A st \in ActiveSeq :
          /\ sent = CallEvents(seq[st].calls) \o seq[st].batch \o chan[st].queue
          /\ seq[st].pc = "done" =>
                /\ sent = CallEvents(seq[st].calls)
                /\ TargetsUnion(seq[st].calls) = ExpectedTargets(sent)
    /\ "parallel" \in active =>
          /\ sent = UnitEvents(units) \o par.batch \o chan["parallel"].queue
          /\ par.pc # "drain" => par.batch = <<>> /\ par.targets = EmptyTargets
          /\ par.closed =>
                /\ chan["parallel"].closed /\ chan["parallel"].queue = <<>>
                /\ sent = UnitEvents(units)
          /\ par.pc = "done" => TargetsUnion(units) = ExpectedTargets(sent)

\* C14: event conservation. Every event sent before close is received
\* exactly once and sits in exactly one dispatched batch, the events drained
\* in the pass that observes closure included; the engine dispatches a
\* drained batch in the activation that drained it; closed never becomes
\* false again and nothing is received after it is set; at completion the
\* dispatched batches together hold all events sent.
C14_EventConservation ==
    /\ []EventsConserved
    /\ [][par.closed => (par'.closed /\ chan'["parallel"].queue = chan["parallel"].queue
                         /\ UnitEvents(units') = UnitEvents(units))]_vars

\* The engine completed after two batches, the second drained in the pass
\* that observed closure.
C14_Witness ==
    /\ "parallel" \in active
    /\ par.pc = "done"
    /\ Len(units) = 2 /\ Len(sent) = 2
    /\ sent = UnitEvents(units)

\* A step that hands a new batch to the backend
DispatchStep(st) ==
    IF st \in SeqStrategies
    THEN Len(seq'[st].calls) > Len(seq[st].calls)
    ELSE Len(units') > Len(units)

\* The events of the batches dispatched by st after the step
DispatchedAfter(st) ==
    IF st \in SeqStrategies THEN CallEvents(seq'[st].calls) ELSE UnitEvents(units')

\* The batches dispatched by st so far
Dispatched(st) == IF st \in SeqStrategies THEN seq[st].calls ELSE units

\* The batches dispatched by st after the step
DispatchedNext(st) == IF st \in SeqStrategies THEN seq'[st].calls ELSE units'

\* C15: drain before dispatch, in all three strategies. A batch is
\* dispatched only by a step that finds the channel empty, and with it every
\* event sent so far is in a dispatched batch; so when all events were
\* enqueued before the first drain, the session dispatches exactly one batch
\* and it contains them all.
C15_DrainBeforeDispatch ==
    /\ [][\A st \in active :
             DispatchStep(st) =>
                 /\ chan[st].queue = <<>>
                 /\ DispatchedAfter(st) = sent]_vars
    /\ [](\A st \in active :
             (Dispatched(st) # <<>> /\ Dispatched(st)[1].batch = sent) =>
                 /\ Len(Dispatched(st)) = 1
                 /\ Dispatched(st)[1].targets = OneBatchTargets(st, sent))

\* One batch holding both events, which were enqueued before the drain
C15_Witness ==
    /\ "offloaded" \in active
    /\ Len(sent) = MaxEvents
    /\ Len(seq["offloaded"].calls) = 1
    /\ seq["offloaded"].calls[1].batch = sent
    /\ chan["offloaded"].closed

\* The units whose handle has left pending
Taken == (1..Len(units)) \ par.pending

\* pending holds the handles of the units dispatched and not yet taken by a
\* harvest; every handle taken carried a result that was merged, once,
\* except the one whose error stopped the engine.
PendingAccounting ==
    "parallel" \in active =>
        /\ par.pending \subseteq 1..Len(units)
        /\ Range(par.harvested) \subseteq Taken
        /\ Cardinality(Range(par.harvested)) = Len(par.harvested)
        /\ \A u \in Range(par.harvested) : units[u].status = "sent"
        /\ par.pc # "panicked" =>
              /\ Taken = Range(par.harvested)
              /\ Cardinality(par.pending) = Len(units) - Len(par.harvested)
        /\ par.pc = "panicked" =>
              /\ Cardinality(Taken \ Range(par.harvested)) = 1
              /\ \A u \in Taken \ Range(par.harvested) : units[u].status = "dropped"
        /\ par.pc # "done" =>
              par.multiproof = UNION {UnitProof(u) : u \in Range(par.harvested)}
        /\ par.pc = "done" =>
              /\ par.pending = {}
              /\ par.yielded = <<UNION {UnitProof(u) : u \in 1..Len(units)}>>

\* C16: pendingWork holds exactly one handle per unit dispatched and not yet
\* harvested (its size is dispatched minus harvested); a harvest removes
\* exactly one completed handle and merges its result into the accumulator;
\* no result is merged twice and none is dropped; at Done the accumulator
\* is the merge of the results of all units.
C16_PendingWorkAccounting ==
    /\ []PendingAccounting
    /\ [][Len(par'.harvested) > Len(par.harvested) =>
             \E u \in Resolved(par) :
                 /\ par'.pending = par.pending \ {u}
                 /\ par'.harvested = Append(par.harvested, u)
                 /\ UnitProof(u) \subseteq
                        (IF par'.pc = "done" THEN par'.yielded[1] ELSE par'.multiproof)]_vars

\* One unit harvested and merged while another is still pending
C16_Witness ==
    /\ "parallel" \in active
    /\ Len(units) = 2
    /\ par.harvested = <<1>>
    /\ par.pending = {2}
    /\ par.multiproof = UnitProof(1)
    /\ par.pc = "suspended"

Running == {u \in par.pending : units[u].status = "running"}

\* C18: fan-out is unbounded and fire-and-forget. The step that ends a
\* drain with a non-empty batch spawns a unit of work for it and adds its
\* handle to pending, however many earlier units are still pending, and the
\* engine goes on without waiting for the new unit.
C18_FireAndForget ==
    [][("parallel" \in active /\ par.pc = "drain" /\ par'.pc # "drain"
           /\ par.batch # <<>>) =>
          /\ Len(units') = Len(units) + 1
          /\ units'[Len(units')].batch = par.batch
          /\ units'[Len(units')].status = "running"
          /\ par'.pending = par.pending \cup {Len(units')}
          /\ par'.pc = "harvest"]_vars

\* As many units of work simultaneously pending and computing as events
\* were sent, each drained and dispatched before any unit completed
C18_Witness ==
    /\ "parallel" \in active
    /\ Len(units) = MaxEvents
    /\ Cardinality(Running) = MaxEvents
    /\ par.pc = "suspended"

\* C19: abandonment of the engine. Dropping the engine cancels no unit of
\* work it has dispatched; once it is dropped no unit is dispatched, nothing
\* is merged into the accumulator or yielded, and a unit changes only by
\* running its backend computation to completion.
C19_Abandonment ==
    /\ [](\A u \in 1..Len(units) : units[u].status # "cancelled")
    /\ [][("parallel" \in active /\ par'.pc = "dropped") =>
             /\ Len(units') = Len(units)
             /\ par'.multiproof = par.multiproof
             /\ par'.harvested = par.harvested
             /\ par'.yielded = par.yielded
             /\ \A u \in 1..Len(units) :
                   \/ units'[u] = units[u]
                   \/ /\ units[u].status = "running"
                      /\ units'[u] = [units[u] EXCEPT !.status = "discarded"]
                   \/ /\ units[u].status = "running"
                      /\ units'[u] = [units[u] EXCEPT !.status = "dropped"]]_vars
    /\ [][par.pc = "dropped" => par'.pc = "dropped"]_vars

\* The engine was dropped with the stream open and two units of work
\* running; one has since computed its result, found its receiver gone and
\* finished, the other is still running.
C19_Witness ==
    /\ "parallel" \in active
    /\ par.pc = "dropped"
    /\ ~chan["parallel"].closed
    /\ Len(units) = 2
    /\ units[1].status = "discarded"
    /\ units[2].status = "running"
    /\ par.harvested = <<>>

\* The events st has taken off its channel
Received(st) == Len(sent) - Len(chan[st].queue)

\* C20: no strategy invokes the backend with an empty batch. Every batch a
\* sequential gatherer dispatches holds the target of the event that started
\* it, the engine dispatches only a batch with at least one key, and the
\* number of dispatches never exceeds the number of events received.
C20_NoEmptyBatch ==
    \A st \in active :
        /\ \A i \in 1..Len(Dispatched(st)) :
              /\ Dispatched(st)[i].batch # <<>>
              /\ DOMAIN Dispatched(st)[i].targets # {}
              /\ keccak256(Dispatched(st)[i].batch[1].address)
                     \in DOMAIN Dispatched(st)[i].targets
              /\ Dispatched(st)[i].targets = ExpectedTargets(Dispatched(st)[i].batch)
        /\ Len(Dispatched(st)) <= Received(st)

\* The engine ended a drain that received nothing (it was polled for a
\* harvest) without dispatching, one unit having been dispatched before
C20_Witness ==
    /\ "parallel" \in active
    /\ par.pc = "harvest"
    /\ par.harvested = <<>>
    /\ Len(units) = 1
    /\ units[1].status = "sent"
    /\ Received("parallel") = 1
    /\ ~par.woken

=============================================================================
